---- MODULE Spec2Model ----
(***************************************************************************)
(* Model of upload/hf.py: read_dataset_stream, the resumable shard stream  *)
(* with a metadata fast-jump (find_start_file), a one-ahead background     *)
(* prefetch (download_file_async / _download_worker) and per-shard local   *)
(* cleanup.  Shards are numbered from 0 as in the code; a record is        *)
(* identified by its shard and its 1-based row inside the shard.           *)
(***************************************************************************)
EXTENDS Integers, Sequences, FiniteSets, TLC

\* ---------------------------------------------------------------- bounds
MaxShards == 3
MaxTotalRows == 4
MaxOpens == 2
MaxFaults == 2

\* ------------------------------------------------------------- constants
\* Python's None for local_path and next_file_queue (shard ids are >= 0).
None == -1

VARIABLES
    rows,                \* the remote dataset: row count of each shard, in catalog order
    skip_to,             \* argument of read_dataset_stream
    pc,                  \* position of the generator's frame
    parquet_files,       \* result of list_files (shard ids in order)
    start_file_idx,      \* find_start_file result, first component
    global_idx_at_start, \* find_start_file result, second component
    current_global_idx,  \* the cursor
    i,                   \* loop index into remaining_files
    local_path,          \* shard whose content local_path names, or None
    next_file_queue,     \* shard whose prefetch queue is held, or None
    row,                 \* rows of df already taken by the itertuples loop
    prefetch,            \* per shard: state of its background fetch and queue slot
    cache,               \* per shard: state of its content in HF_CACHE_DIR
    attempts,            \* per shard: hf_hub_download calls issued (sync and async)
    failures,            \* per shard: hf_hub_download calls that raised
    skipped,             \* shards passed over by "if not local_path: continue"
    yielded,             \* records handed to the consumer, in order
    metaFailed,          \* shards whose footer read raised during the scan
    metaRequests,        \* shards whose footer was requested during the scan
    scan_found,          \* find_start_file returned from inside its loop (line 115)
    listFailed,          \* list_repo_files raised
    removeFailed,        \* shards whose os.remove raised OSError
    readFailed,          \* shards whose pd.read_parquet raised
    full_run,            \* records of the last exhausted skip_to = 0 stream
    opens,               \* streams opened so far by the caller
    collection,          \* ids of the points stored in the Qdrant collection
    LIMIT_POINTS,        \* prepare_data.LIMIT_POINTS of the running process
    limit,               \* argument of read_data
    n_items,             \* read_data's n: items taken from the stream
    points,              \* points read_data has yielded, in order
    load_pc              \* position of the caller (load_all / read_data)

vars == <<rows, skip_to, pc, parquet_files, start_file_idx, global_idx_at_start,
          current_global_idx, i, local_path, next_file_queue, row, prefetch,
          cache, attempts, failures, skipped, yielded, metaFailed, metaRequests,
          scan_found, listFailed, removeFailed, readFailed, full_run, opens,
          collection, LIMIT_POINTS, limit, n_items, points, load_pc>>

\* The state of prepare_data: the collection and the frames of load_all and read_data.
load_vars == <<collection, LIMIT_POINTS, limit, n_items, points, load_pc>>

\* ------------------------------------------------------------- the dataset
num_rows(meta, s) == meta[s + 1]

RECURSIVE SumRows(_, _)
SumRows(meta, n) == IF n = 0 THEN 0 ELSE SumRows(meta, n - 1) + meta[n]

\* The datasets: up to MaxShards files holding up to MaxTotalRows rows in all.
Catalogs ==
    {c \in UNION {[1..n -> 0..MaxTotalRows] : n \in 0..MaxShards} :
        SumRows(c, Len(c)) <= MaxTotalRows}

Shards == 0..(Len(rows) - 1)

\* rows held by shards 0..s-1
RowsBefore(s) == SumRows(rows, s)

TotalRows == SumRows(rows, Len(rows))

\* Offsets a caller may pass: every offset inside the dataset, its end, and one beyond
\* (every offset beyond the end takes the same branches as the first one).
SkipValues(meta) == 0..(SumRows(meta, Len(meta)) + 1)

RECURSIVE SumOver(_, _)
SumOver(f, S) == IF S = {} THEN 0
                 ELSE LET x == CHOOSE y \in S : TRUE IN f[x] + SumOver(f, S \ {x})

\* 1-based position of a record in the concatenated shard order
Position(rec) == RowsBefore(rec.shard) + rec.row

\* ------------------------------------------------------------- list_files
\* Faulty variant of list_files: the except clause is missing its "return []".
list_files_noexcept(ok) == [k \in 1..Len(rows) |-> k - 1]

list_files(ok) == IF ok THEN [k \in 1..Len(rows) |-> k - 1] ELSE <<>>

\* ------------------------------------------------------------- find_start_file
\* Faulty variant of ScanFooters: the test of line 107 with < for <=.
RECURSIVE ScanFooters_lt(_, _, _, _, _, _)
ScanFooters_lt(files, meta, failing, skip, k, T) ==
    IF k > Len(files) THEN <<0, 0, FALSE>>
    ELSE IF files[k] \in failing
         THEN ScanFooters_lt(files, meta, failing, skip, k + 1, T)
         ELSE IF T + num_rows(meta, files[k]) < skip
              THEN ScanFooters_lt(files, meta, failing, skip, k + 1,
                                  T + num_rows(meta, files[k]))
              ELSE <<k - 1, T, TRUE>>

\* Faulty variant of find_start_file: the rows of a file whose footer read raised are
\* taken as unknown and the scan returns at that file.
RECURSIVE ScanStopAtFailure(_, _, _, _, _, _)
ScanStopAtFailure(files, meta, failing, skip, k, T) ==
    IF k > Len(files) THEN <<0, 0, FALSE>>
    ELSE IF files[k] \in failing
         THEN <<k - 1, T, TRUE>>
         ELSE IF T + num_rows(meta, files[k]) <= skip
              THEN ScanStopAtFailure(files, meta, failing, skip, k + 1,
                                     T + num_rows(meta, files[k]))
              ELSE <<k - 1, T, TRUE>>

\* The for loop of find_start_file from enumerate index k-1 with current_total = T;
\* failing is the set of shards whose footer read raises.
RECURSIVE ScanFooters(_, _, _, _, _, _)
ScanFooters(files, meta, failing, skip, k, T) ==
    IF k > Len(files) THEN <<0, 0, FALSE>>
    ELSE IF files[k] \in failing
         THEN ScanFooters(files, meta, failing, skip, k + 1, T)
         ELSE IF T + num_rows(meta, files[k]) <= skip
              THEN ScanFooters(files, meta, failing, skip, k + 1,
                               T + num_rows(meta, files[k]))
              ELSE <<k - 1, T, TRUE>>

\* Faulty variant of find_start_file: the rows before the start file are not returned.
find_start_file_zero(files, meta, failing, skip) ==
    <<ScanFooters(files, meta, failing, skip, 1, 0)[1], 0>>

\* lines 87-122: find_start_file(parquet_files, dataset_name, skip_to)
find_start_file(files, meta, failing, skip) ==
    LET r == ScanFooters(files, meta, failing, skip, 1, 0) IN <<r[1], r[2]>>

\* Footers requested by the scan: every file up to and including the one it returns at.
RECURSIVE ScannedFooters(_, _, _, _, _, _)
ScannedFooters(files, meta, failing, skip, k, T) ==
    IF k > Len(files) THEN {}
    ELSE {files[k]} \cup
         (IF files[k] \in failing
          THEN ScannedFooters(files, meta, failing, skip, k + 1, T)
          ELSE IF T + num_rows(meta, files[k]) <= skip
               THEN ScannedFooters(files, meta, failing, skip, k + 1,
                                   T + num_rows(meta, files[k]))
               ELSE {})

\* ------------------------------------------------------------- the stream
\* Faulty variant of remaining_files: the list is not sliced at the jump result.
remaining_files_all == parquet_files

\* line 140: remaining_files = parquet_files[start_file_idx:]
remaining_files == SubSeq(parquet_files, start_file_idx + 1, Len(parquet_files))

\* Faulty variant of file_name: the synchronous download asks for the first file of
\* the list whatever the iteration.
file_name_first == remaining_files[1]

\* line 146: file_name of the current iteration
file_name == remaining_files[i + 1]

Fresh(rs) == [s \in 0..(Len(rs) - 1) |-> "none"]

\* The dataset, the empty cache and the fields of a frame that has not run yet.
InitData ==
    /\ rows \in Catalogs
    /\ parquet_files = <<>>
    /\ start_file_idx = 0
    /\ global_idx_at_start = 0
    /\ current_global_idx = 0
    /\ i = 0
    /\ local_path = None
    /\ next_file_queue = None
    /\ row = 0
    /\ prefetch = Fresh(rows)
    /\ cache = [s \in 0..(Len(rows) - 1) |-> "absent"]
    /\ attempts = [s \in 0..(Len(rows) - 1) |-> 0]
    /\ failures = [s \in 0..(Len(rows) - 1) |-> 0]
    /\ skipped = {}
    /\ yielded = <<>>
    /\ metaFailed = {}
    /\ metaRequests = {}
    /\ scan_found = FALSE
    /\ listFailed = FALSE
    /\ removeFailed = {}
    /\ readFailed = {}
    /\ full_run = <<>>
    /\ opens = 1
    /\ collection = {}
    /\ n_items = 0
    /\ points = <<>>

\* read_dataset_stream(dataset, skip_to) called on its own: the consumer is any code
\* that pulls and may close; prepare_data is not running.
Init ==
    /\ InitData
    /\ skip_to \in SkipValues(rows)
    /\ pc = "open"
    /\ LIMIT_POINTS = 0
    /\ limit = 0
    /\ load_pc = "none"

\* Errors the collaborators have raised so far in this stream, and whether the
\* environment may raise n more.
Faults == SumOver(failures, DOMAIN failures) + Cardinality(metaFailed)
          + Cardinality(removeFailed) + Cardinality(readFailed)
          + (IF listFailed THEN 1 ELSE 0)

MayFail(n) == Faults + n <= MaxFaults

\* line 129: parquet_files = list_files(dataset_name)
ListFiles(ok) ==
    /\ pc = "open"
    /\ ~ok => MayFail(1)
    /\ parquet_files' = list_files(ok)
    /\ listFailed' = ~ok
    /\ pc' = "jump"
    /\ UNCHANGED <<rows, skip_to, start_file_idx, global_idx_at_start,
                   current_global_idx, i, local_path, next_file_queue, row,
                   prefetch, cache, attempts, failures, skipped, yielded,
                   metaFailed, metaRequests, scan_found, removeFailed, readFailed,
                   full_run, opens,
                   load_vars>>

\* Faulty variant of ForHeader: the held queue is never read, every file is fetched
\* synchronously at the top of its iteration.
ForHeader_noget(n, len, q) == IF n >= len THEN "done" ELSE "sync"

\* The loop header "for i, file_name in enumerate(remaining_files)" entered with
\* index n over a list of length len, holding queue q: where the frame goes next.
ForHeader(n, len, q) ==
    IF n >= len THEN "done" ELSE IF q # None THEN "get" ELSE "sync"

\* lines 132-143 with skip_to > 0: the fast jump, under the footer failures in failing
FastJump(failing) ==
    /\ pc = "jump"
    /\ skip_to > 0
    /\ LET r == find_start_file(parquet_files, rows, failing, skip_to)
       IN /\ start_file_idx' = r[1]
          /\ global_idx_at_start' = r[2]
          /\ current_global_idx' = r[2]
          /\ pc' = ForHeader(0, Len(parquet_files) - r[1], None)
    /\ metaRequests' = ScannedFooters(parquet_files, rows, failing, skip_to, 1, 0)
    /\ metaFailed' = failing \cap metaRequests'
    /\ scan_found' = ScanFooters(parquet_files, rows, failing, skip_to, 1, 0)[3]
    /\ failing \subseteq metaRequests'
    /\ MayFail(Cardinality(failing))
    /\ i' = 0
    /\ next_file_queue' = None
    /\ local_path' = None
    /\ UNCHANGED <<rows, skip_to, parquet_files, row, prefetch, cache, attempts,
                   failures, skipped, yielded, listFailed, removeFailed,
                   readFailed, full_run, opens,
                   load_vars>>

\* lines 132-143 with skip_to = 0: no scan
NoJump ==
    /\ pc = "jump"
    /\ ~(skip_to > 0)
    /\ start_file_idx' = 0
    /\ global_idx_at_start' = 0
    /\ current_global_idx' = 0
    /\ i' = 0
    /\ next_file_queue' = None
    /\ local_path' = None
    /\ pc' = ForHeader(0, Len(parquet_files), None)
    /\ UNCHANGED <<rows, skip_to, parquet_files, row, prefetch, cache, attempts,
                   failures, skipped, yielded, metaFailed, metaRequests, scan_found,
                   listFailed, removeFailed, readFailed, full_run, opens,
                   load_vars>>

\* Faulty variant of AfterGet: the unavailable marker is not retried.
AfterGet_noretry(result) == "launch"

\* line 154: "if not local_path" after the queue was read: a path goes on to the
\* launch of the next prefetch, the unavailable marker to the synchronous retry
AfterGet(result) == IF result = "path" THEN "launch" ELSE "sync"

\* lines 149-151: local_path = next_file_queue.get(), blocking until the worker has put
QueueGet ==
    /\ pc = "get"
    /\ next_file_queue # None
    /\ prefetch[next_file_queue] \in {"path", "unavailable"}
    /\ local_path' = IF prefetch[next_file_queue] = "path" THEN next_file_queue ELSE None
    /\ prefetch' = [prefetch EXCEPT ![next_file_queue] = "read"]
    /\ pc' = AfterGet(prefetch[next_file_queue])
    /\ UNCHANGED <<rows, skip_to, parquet_files, start_file_idx, global_idx_at_start,
                   current_global_idx, i, next_file_queue, row, cache, attempts,
                   failures, skipped, yielded, metaFailed, metaRequests, scan_found,
                   listFailed, removeFailed, readFailed, full_run, opens,
                   load_vars>>

\* lines 154-155 and 58-76: the synchronous download_file of the current file
DownloadFile(ok) ==
    /\ pc = "sync"
    /\ local_path = None
    /\ ~ok => MayFail(1)
    /\ attempts' = [attempts EXCEPT ![file_name] = @ + 1]
    /\ failures' = [failures EXCEPT ![file_name] = IF ok THEN @ ELSE @ + 1]
    /\ cache' = IF ok THEN [cache EXCEPT ![file_name] = "present"] ELSE cache
    /\ local_path' = IF ok THEN file_name ELSE None
    /\ pc' = "launch"
    /\ UNCHANGED <<rows, skip_to, parquet_files, start_file_idx, global_idx_at_start,
                   current_global_idx, i, next_file_queue, row, prefetch, skipped,
                   yielded, metaFailed, metaRequests, scan_found, listFailed, removeFailed,
                   readFailed, full_run, opens,
                   load_vars>>

\* lines 158-159 and 50-55: start the worker thread for the next file
DownloadFileAsync ==
    /\ pc = "launch"
    /\ i < Len(remaining_files) - 1
    /\ LET nf == remaining_files[i + 2]
       IN /\ next_file_queue' = nf
          /\ prefetch' = [prefetch EXCEPT ![nf] = "running"]
          /\ cache' = [cache EXCEPT ![nf] = "fetching"]
          /\ attempts' = [attempts EXCEPT ![nf] = @ + 1]
    /\ pc' = "check"
    /\ UNCHANGED <<rows, skip_to, parquet_files, start_file_idx, global_idx_at_start,
                   current_global_idx, i, local_path, row, failures, skipped,
                   yielded, metaFailed, metaRequests, scan_found, listFailed, removeFailed,
                   readFailed, full_run, opens,
                   load_vars>>

\* Faulty variant of NoNextFile: no prefetch is started either when the current file
\* is unavailable.
NoNextFile_orunavailable ==
    /\ pc = "launch"
    /\ ~(i < Len(remaining_files) - 1) \/ local_path = None
    /\ next_file_queue' = None
    /\ pc' = "check"
    /\ UNCHANGED <<rows, skip_to, parquet_files, start_file_idx, global_idx_at_start,
                   current_global_idx, i, local_path, row, prefetch, cache,
                   attempts, failures, skipped, yielded, metaFailed, metaRequests,
                   scan_found, listFailed, removeFailed, readFailed, full_run, opens,
                   load_vars>>

\* lines 160-161: the last file has no successor
NoNextFile ==
    /\ pc = "launch"
    /\ ~(i < Len(remaining_files) - 1)
    /\ next_file_queue' = None
    /\ pc' = "check"
    /\ UNCHANGED <<rows, skip_to, parquet_files, start_file_idx, global_idx_at_start,
                   current_global_idx, i, local_path, row, prefetch, cache,
                   attempts, failures, skipped, yielded, metaFailed, metaRequests, scan_found,
                   listFailed, removeFailed, readFailed, full_run, opens,
                   load_vars>>

\* lines 38-47: the worker's hf_hub_download ends and the result is put in the queue
DownloadWorker(s, ok) ==
    /\ prefetch[s] = "running"
    /\ ~ok => MayFail(1)
    /\ prefetch' = [prefetch EXCEPT ![s] = IF ok THEN "path" ELSE "unavailable"]
    /\ cache' = [cache EXCEPT ![s] = IF ok THEN "present" ELSE "absent"]
    /\ failures' = [failures EXCEPT ![s] = IF ok THEN @ ELSE @ + 1]
    /\ UNCHANGED <<rows, skip_to, pc, parquet_files, start_file_idx,
                   global_idx_at_start, current_global_idx, i, local_path,
                   next_file_queue, row, attempts, skipped, yielded, metaFailed,
                   metaRequests, scan_found, listFailed, removeFailed, readFailed, full_run,
                   opens, load_vars>>

\* lines 163-164: if not local_path: continue
SkipShard ==
    /\ pc = "check"
    /\ local_path = None
    /\ skipped' = skipped \cup {file_name}
    /\ i' = i + 1
    /\ pc' = ForHeader(i + 1, Len(remaining_files), next_file_queue)
    /\ UNCHANGED <<rows, skip_to, parquet_files, start_file_idx, global_idx_at_start,
                   current_global_idx, local_path, next_file_queue, row, prefetch,
                   cache, attempts, failures, yielded, metaFailed, metaRequests, scan_found,
                   listFailed, removeFailed, readFailed, full_run, opens,
                   load_vars>>

\* line 167: df = pd.read_parquet(local_path); a raise leaves through the finally
ReadParquet(ok) ==
    /\ pc = "check"
    /\ local_path # None
    /\ ~ok => MayFail(1)
    /\ row' = 0
    /\ readFailed' = IF ok THEN readFailed ELSE readFailed \cup {local_path}
    /\ pc' = IF ok THEN "rows" ELSE "finally_raise"
    /\ UNCHANGED <<rows, skip_to, parquet_files, start_file_idx, global_idx_at_start,
                   current_global_idx, i, local_path, next_file_queue, prefetch,
                   cache, attempts, failures, skipped, yielded, metaFailed,
                   metaRequests, scan_found, listFailed, removeFailed, full_run, opens,
                   load_vars>>

\* Faulty variant of Suppressed: the skip test off by one (c < skip_to).
Suppressed_strict(c, skip) == c < skip

\* line 173: the intra-file skip test on the cursor value c
Suppressed(c, skip) == c <= skip

\* lines 168-176: one step of the itertuples loop, run when the consumer pulls
NextRow ==
    /\ pc \in {"rows", "yield"}
    /\ row < num_rows(rows, local_path)
    /\ row' = row + 1
    /\ current_global_idx' = current_global_idx + 1
    /\ IF Suppressed(current_global_idx + 1, skip_to)
       THEN /\ pc' = "rows"
            /\ yielded' = yielded
       ELSE /\ pc' = "yield"
            /\ yielded' = Append(yielded, [shard |-> local_path, row |-> row + 1,
                                           cursor |-> current_global_idx + 1])
    /\ UNCHANGED <<rows, skip_to, parquet_files, start_file_idx, global_idx_at_start,
                   i, local_path, next_file_queue, prefetch, cache, attempts,
                   failures, skipped, metaFailed, metaRequests, scan_found, listFailed,
                   removeFailed, readFailed, full_run, opens,
                   load_vars>>

\* line 168: itertuples is exhausted, the try block ends normally
Exhausted ==
    /\ pc \in {"rows", "yield"}
    /\ ~(row < num_rows(rows, local_path))
    /\ pc' = "finally_next"
    /\ UNCHANGED <<rows, skip_to, parquet_files, start_file_idx, global_idx_at_start,
                   current_global_idx, i, local_path, next_file_queue, row,
                   prefetch, cache, attempts, failures, skipped, yielded,
                   metaFailed, metaRequests, scan_found, listFailed, removeFailed, readFailed,
                   full_run, opens,
                   load_vars>>

\* Faulty variant of Close: the frame is dropped at the yield without running the finally.
Close_abandon ==
    /\ pc = "yield"
    /\ pc' = "closed"
    /\ UNCHANGED <<rows, skip_to, parquet_files, start_file_idx, global_idx_at_start,
                   current_global_idx, i, local_path, next_file_queue, row,
                   prefetch, cache, attempts, failures, skipped, yielded,
                   metaFailed, metaRequests, scan_found, listFailed, removeFailed,
                   readFailed, full_run, opens,
                   load_vars>>

\* line 176: the consumer stops pulling; GeneratorExit is raised at the yield
Close ==
    /\ pc = "yield"
    /\ pc' = "finally_close"
    /\ UNCHANGED <<rows, skip_to, parquet_files, start_file_idx, global_idx_at_start,
                   current_global_idx, i, local_path, next_file_queue, row,
                   prefetch, cache, attempts, failures, skipped, yielded,
                   metaFailed, metaRequests, scan_found, listFailed, removeFailed, readFailed,
                   full_run, opens,
                   load_vars>>

\* Faulty variant of AfterFinally: a closed generator first drains the held queue.
AfterFinally_drain(p) ==
    IF p = "finally_raise" THEN "raised"
    ELSE IF p = "finally_close"
         THEN (IF next_file_queue # None THEN "get" ELSE "closed")
         ELSE ForHeader(i + 1, Len(remaining_files), next_file_queue)

\* Where the frame goes after the finally block entered in state p.
AfterFinally(p) ==
    IF p = "finally_raise" THEN "raised"
    ELSE IF p = "finally_close" THEN "closed"
    ELSE ForHeader(i + 1, Len(remaining_files), next_file_queue)

\* Faulty variant of os_remove: the file is left in place and nothing is raised.
os_remove_noop(c, p, removed) == c

\* line 180: os.remove(p) on the cache c; removed = FALSE is the OSError of line 181
os_remove(c, p, removed) == IF removed THEN [c EXCEPT ![p] = "absent"] ELSE c

\* lines 177-182: the finally block; removed = FALSE is os.remove raising OSError
Finally(removed) ==
    /\ pc \in {"finally_next", "finally_raise", "finally_close"}
    /\ ~removed => MayFail(1)
    /\ IF cache[local_path] = "present"
       THEN /\ cache' = os_remove(cache, local_path, removed)
            /\ removeFailed' = IF removed THEN removeFailed
                               ELSE removeFailed \cup {local_path}
       ELSE /\ removed
            /\ UNCHANGED <<cache, removeFailed>>
    /\ i' = IF pc = "finally_next" THEN i + 1 ELSE i
    /\ pc' = AfterFinally(pc)
    /\ local_path' = IF AfterFinally(pc) \in {"get", "sync"} THEN None ELSE local_path
    /\ UNCHANGED <<rows, skip_to, parquet_files, start_file_idx, global_idx_at_start,
                   current_global_idx, next_file_queue, row, prefetch,
                   attempts, failures, skipped, yielded, metaFailed, metaRequests, scan_found,
                   listFailed, readFailed, full_run, opens,
                   load_vars>>

\* A later call of read_dataset_stream by the caller (prepare_data.read_data), after
\* the previous stream was exhausted: a fresh frame over the same dataset and cache.
Reopen(skip) ==
    /\ pc = "done"
    /\ opens < MaxOpens
    /\ opens' = opens + 1
    /\ full_run' = IF skip_to = 0 THEN yielded ELSE full_run
    /\ skip_to' = skip
    /\ pc' = "open"
    /\ parquet_files' = <<>>
    /\ start_file_idx' = 0
    /\ global_idx_at_start' = 0
    /\ current_global_idx' = 0
    /\ i' = 0
    /\ local_path' = None
    /\ next_file_queue' = None
    /\ row' = 0
    /\ prefetch' = Fresh(rows)
    /\ attempts' = [s \in Shards |-> 0]
    /\ failures' = [s \in Shards |-> 0]
    /\ skipped' = {}
    /\ yielded' = <<>>
    /\ metaFailed' = {}
    /\ metaRequests' = {}
    /\ scan_found' = FALSE
    /\ listFailed' = FALSE
    /\ removeFailed' = {}
    /\ readFailed' = {}
    /\ UNCHANGED <<rows, cache, load_vars>>

Next ==
    \/ \E ok \in BOOLEAN : ListFiles(ok)
    \/ \E failing \in SUBSET Shards : FastJump(failing)
    \/ NoJump
    \/ QueueGet
    \/ \E ok \in BOOLEAN : DownloadFile(ok)
    \/ DownloadFileAsync
    \/ NoNextFile
    \/ \E s \in Shards, ok \in BOOLEAN : DownloadWorker(s, ok)
    \/ SkipShard
    \/ \E ok \in BOOLEAN : ReadParquet(ok)
    \/ NextRow
    \/ Exhausted
    \/ Close
    \/ \E removed \in BOOLEAN : Finally(removed)

Spec == Init /\ [][Next]_vars

\* The error-free runs of a caller that resumes: the first stream is opened at 0 and
\* every later one at any offset; no listing, footer, fetch, format or remove error.
InitResume == Init /\ skip_to = 0

NextResume ==
    \/ ListFiles(TRUE)
    \/ FastJump({})
    \/ NoJump
    \/ QueueGet
    \/ DownloadFile(TRUE)
    \/ DownloadFileAsync
    \/ NoNextFile
    \/ \E s \in Shards : DownloadWorker(s, TRUE)
    \/ ReadParquet(TRUE)
    \/ NextRow
    \/ Exhausted
    \/ Finally(TRUE)
    \/ \E skip \in SkipValues(rows) : Reopen(skip)

SpecResume == InitResume /\ [][NextResume]_vars

\* The runs of a consumer that keeps pulling and never closes the generator, with
\* every started step (a download, the worker's fetch, a read) eventually ending in
\* one of its outcomes.
NextLive ==
    \/ \E ok \in BOOLEAN : ListFiles(ok)
    \/ \E failing \in SUBSET Shards : FastJump(failing)
    \/ NoJump
    \/ QueueGet
    \/ \E ok \in BOOLEAN : DownloadFile(ok)
    \/ DownloadFileAsync
    \/ NoNextFile
    \/ \E s \in Shards, ok \in BOOLEAN : DownloadWorker(s, ok)
    \/ SkipShard
    \/ \E ok \in BOOLEAN : ReadParquet(ok)
    \/ NextRow
    \/ Exhausted
    \/ \E removed \in BOOLEAN : Finally(removed)

SpecLive == Init /\ [][NextLive]_vars /\ WF_vars(NextLive)

\* ------------------------------------------------------------ prepare_data
\* line 12
EXACT_QUERY_COUNT == 0

\* Values of LIMIT_POINTS (the environment) and of read_data's limit
LimitValues(meta) == 0..(SumRows(meta, Len(meta)) + 1)

\* Faulty variant of global_idx: the id is the count of items alone.
global_idx_count(cnt, skip_first) == cnt

\* line 88: global_idx = n + skip_first
global_idx(cnt, skip_first) == cnt + skip_first

\* line 91: if global_idx > limit
over_limit(idx, lim) == idx > lim

\* Python's range(a, b)
range(a, b) == a..(b - 1)

\* lines 84-96: one pass of read_data's loop body on the item the stream has just
\* yielded. skip_first is the stream's skip_to (line 83). On "return" the stream
\* generator is dropped at its yield and closed.
TakeItem ==
    /\ load_pc = "upload"
    /\ pc = "yield"
    /\ n_items < Len(yielded)
    /\ n_items' = n_items + 1
    /\ IF over_limit(global_idx(n_items + 1, skip_to), limit)
       THEN /\ pc' = "finally_close"
            /\ points' = points
       ELSE /\ pc' = pc
            /\ points' = Append(points, [id |-> global_idx(n_items + 1, skip_to),
                                         item |-> yielded[n_items + 1]])
    /\ UNCHANGED <<rows, skip_to, parquet_files, start_file_idx, global_idx_at_start,
                   current_global_idx, i, local_path, next_file_queue, row,
                   prefetch, cache, attempts, failures, skipped, yielded,
                   metaFailed, metaRequests, scan_found, listFailed, removeFailed,
                   readFailed, full_run, opens, LIMIT_POINTS, limit, load_pc>>

\* read_data pulled by a caller that only collects the points
ReadDataItem == TakeItem /\ UNCHANGED collection

\* lines 133-147: client.upload_points pulls read_data and stores the point it gets
UploadPoint ==
    /\ TakeItem
    /\ collection' = collection \cup {points'[k].id : k \in 1..Len(points')}

\* line 84, "for item in stream": read_data pulls the stream once it has dealt with
\* the item it was handed
PullRow == n_items = Len(yielded) /\ NextRow

PullEnd == n_items = Len(yielded) /\ Exhausted

\* line 83: stream = read_dataset_stream(dataset, split="train", skip_to=skip): a new
\* frame over the same dataset and cache
CallStream(skip) ==
    /\ skip_to' = skip
    /\ pc' = "open"
    /\ parquet_files' = <<>>
    /\ start_file_idx' = 0
    /\ global_idx_at_start' = 0
    /\ current_global_idx' = 0
    /\ i' = 0
    /\ local_path' = None
    /\ next_file_queue' = None
    /\ row' = 0
    /\ prefetch' = Fresh(rows)
    /\ attempts' = [s \in Shards |-> 0]
    /\ failures' = [s \in Shards |-> 0]
    /\ skipped' = {}
    /\ yielded' = <<>>
    /\ metaFailed' = {}
    /\ metaRequests' = {}
    /\ scan_found' = FALSE
    /\ listFailed' = FALSE
    /\ removeFailed' = {}
    /\ readFailed' = {}

\* No run of load_all is in progress: none was started, or the last one returned
\* (nothing to upload, or upload_points came to the end of read_data). The runs are
\* followed up to the first one that trims.
LoadAllIdle ==
    IF load_pc = "upload" THEN pc \in {"done", "closed"}
    ELSE load_pc \in {"start", "full"}

\* lines 99-130: a run of load_all in a process whose LIMIT_POINTS is lp, up to the
\* call of upload_points
LoadAll(lp) ==
    /\ LoadAllIdle
    /\ LIMIT_POINTS' = lp
    /\ LET current_count == Cardinality(collection)
           skip_first == EXACT_QUERY_COUNT + current_count
           remaining_to_upload == lp - current_count
       IN IF remaining_to_upload < 0
          THEN /\ collection' = collection \ range(lp, current_count)
               /\ load_pc' = "trimmed"
               /\ UNCHANGED <<skip_to, pc, parquet_files, start_file_idx,
                              global_idx_at_start, current_global_idx, i, local_path,
                              next_file_queue, row, prefetch, attempts, failures,
                              skipped, yielded, metaFailed, metaRequests, scan_found,
                              listFailed, removeFailed, readFailed, limit, n_items,
                              points>>
          ELSE IF remaining_to_upload = 0
          THEN /\ load_pc' = "full"
               /\ UNCHANGED <<skip_to, pc, parquet_files, start_file_idx,
                              global_idx_at_start, current_global_idx, i, local_path,
                              next_file_queue, row, prefetch, attempts, failures,
                              skipped, yielded, metaFailed, metaRequests, scan_found,
                              listFailed, removeFailed, readFailed, limit, n_items,
                              points, collection>>
          ELSE /\ CallStream(skip_first)
               /\ limit' = lp + EXACT_QUERY_COUNT
               /\ n_items' = 0
               /\ points' = <<>>
               /\ load_pc' = "upload"
               /\ UNCHANGED collection
    /\ UNCHANGED <<rows, cache, full_run, opens>>

\* read_data(DATASETS, skip_first, limit) pulled to its end; footer reads, the
\* synchronous download and pd.read_parquet may raise.
InitReadData ==
    /\ InitData
    /\ skip_to \in SkipValues(rows)
    /\ limit \in LimitValues(rows)
    /\ pc = "open"
    /\ LIMIT_POINTS = 0
    /\ load_pc = "upload"

NextReadData ==
    \/ ListFiles(TRUE)
    \/ \E failing \in SUBSET Shards : FastJump(failing)
    \/ NoJump
    \/ QueueGet
    \/ \E ok \in BOOLEAN : DownloadFile(ok)
    \/ DownloadFileAsync
    \/ NoNextFile
    \/ \E s \in Shards : DownloadWorker(s, TRUE)
    \/ SkipShard
    \/ \E ok \in BOOLEAN : ReadParquet(ok)
    \/ PullRow
    \/ PullEnd
    \/ Finally(TRUE)
    \/ ReadDataItem

SpecReadData == InitReadData /\ [][NextReadData]_vars

\* Runs of load_all, one after another, each in a process with its own LIMIT_POINTS,
\* on a collection that starts empty, up to the first run that trims; no call raises.
InitLoad ==
    /\ InitData
    /\ skip_to = 0
    /\ limit = 0
    /\ pc = "none"
    /\ LIMIT_POINTS = 0
    /\ load_pc = "start"

NextLoad ==
    \/ \E lp \in LimitValues(rows) : LoadAll(lp)
    \/ ListFiles(TRUE)
    \/ FastJump({})
    \/ NoJump
    \/ QueueGet
    \/ DownloadFile(TRUE)
    \/ DownloadFileAsync
    \/ NoNextFile
    \/ \E s \in Shards : DownloadWorker(s, TRUE)
    \/ ReadParquet(TRUE)
    \/ PullRow
    \/ PullEnd
    \/ Finally(TRUE)
    \/ UploadPoint

SpecLoad == InitLoad /\ [][NextLoad]_vars

\* ================================================================= claims
\* No listing, footer, fetch or format error has been raised in this stream.
NoErrors ==
    /\ ~listFailed
    /\ metaFailed = {}
    /\ readFailed = {}
    /\ \A s \in Shards : failures[s] = 0

IsRecord(y) == y.shard \in Shards /\ y.row \in 1..num_rows(rows, y.shard)

\* C1: with no listing, footer, fetch or format error and skip_to in [0, TotalRows],
\* the k-th record the stream yields is the record at dataset position skip_to + k,
\* and the exhausted stream has yielded exactly TotalRows - skip_to records: the
\* positions skip_to+1 .. TotalRows, each once, in increasing order.
C1_ExactTail ==
    (NoErrors /\ skip_to <= TotalRows) =>
        /\ \A k \in 1..Len(yielded) :
              IsRecord(yielded[k]) /\ Position(yielded[k]) = skip_to + k
        /\ Len(yielded) <= TotalRows - skip_to
        /\ pc = "done" => Len(yielded) = TotalRows - skip_to

\* C1 witness: an exhausted error-free stream that jumped past a shard, suppressed
\* rows inside the start shard and yielded records of two shards.
C1_Witness ==
    /\ pc = "done" /\ NoErrors
    /\ start_file_idx > 0
    /\ global_idx_at_start < skip_to
    /\ skip_to < TotalRows
    /\ \E k \in 1..Len(yielded) : yielded[k].shard # yielded[1].shard

Records(seq) == [k \in 1..Len(seq) |-> <<seq[k].shard, seq[k].row>>]

\* C2: in error-free runs, when a stream opened at skip_to = k (k <= TotalRows) is
\* exhausted after a stream opened at 0 was, the first k records of the stream from 0
\* followed by the records of the stream from k are the records of the stream from 0.
C2_ResumeComposes ==
    (pc = "done" /\ opens > 1 /\ skip_to <= TotalRows) =>
        Records(SubSeq(full_run, 1, skip_to)) \o Records(yielded) = Records(full_run)

\* C2 witness: a resumed stream that started inside a later shard and yielded records.
C2_Witness ==
    /\ pc = "done" /\ opens > 1
    /\ skip_to > 0 /\ skip_to < TotalRows
    /\ start_file_idx > 0
    /\ global_idx_at_start < skip_to
    /\ Len(yielded) > 1
    /\ Len(full_run) = TotalRows

\* The result the fast jump is specified to have when no footer read fails: the first
\* shard whose cumulative row count exceeds skip with the rows before it, else (0, 0).
ExpectedStart(meta, skip) ==
    LET over == {s \in 0..(Len(meta) - 1) : SumRows(meta, s + 1) > skip}
    IN IF over = {} THEN <<0, 0>>
       ELSE LET m == CHOOSE s \in over : \A u \in over : s <= u
            IN <<m, SumRows(meta, m)>>

\* C3: with no footer failure find_start_file returns, for every skip_to >= 0, the
\* smallest shard index whose cumulative row count exceeds skip_to together with the
\* rows of the shards before it, and (0, 0) when there is none; the result the
\* stream stored is that one; row counts [100,200,150] give (1,100) at 250, (0,0) at 0
\* and (0,0) at 500.
C3_FindStartFile ==
    /\ pc = "open" =>
          \A skip \in SkipValues(rows) :
             find_start_file(list_files(TRUE), rows, {}, skip) = ExpectedStart(rows, skip)
    /\ (pc \notin {"open", "jump"} /\ skip_to > 0 /\ ~listFailed /\ metaFailed = {}) =>
          <<start_file_idx, global_idx_at_start>> = ExpectedStart(rows, skip_to)
    /\ find_start_file(<<0, 1, 2>>, <<100, 200, 150>>, {}, 250) = <<1, 100>>
    /\ find_start_file(<<0, 1, 2>>, <<100, 200, 150>>, {}, 0) = <<0, 0>>
    /\ find_start_file(<<0, 1, 2>>, <<100, 200, 150>>, {}, 500) = <<0, 0>>

\* C3 witness: a jump without footer failures that returned a later shard exactly at
\* a shard boundary.
C3_Witness ==
    /\ pc \notin {"open", "jump"} /\ skip_to > 0 /\ ~listFailed /\ metaFailed = {}
    /\ scan_found
    /\ start_file_idx > 0
    /\ global_idx_at_start = skip_to

\* C4: when find_start_file returned from inside its scan, whatever footer reads
\* failed, the returned pair satisfies
\* rows_before <= skip_to < rows_before + row_count(start shard).
C4_FoundRange ==
    /\ scan_found =>
          /\ start_file_idx \in Shards
          /\ global_idx_at_start <= skip_to
          /\ skip_to < global_idx_at_start + num_rows(rows, start_file_idx)
    /\ pc = "open" =>
          \A skip \in SkipValues(rows) : \A failing \in SUBSET Shards :
             LET r == ScanFooters(list_files(TRUE), rows, failing, skip, 1, 0)
             IN r[3] => /\ r[1] \in Shards \ failing
                        /\ r[2] <= skip
                        /\ skip < r[2] + num_rows(rows, r[1])

\* C4 witness: a scan that lost a footer and returned at a later shard.
C4_Witness ==
    /\ scan_found
    /\ metaFailed # {}
    /\ start_file_idx > 0
    /\ global_idx_at_start > 0

\* Shards that hold a record and whose records all lie at positions <= skip.
PassedShards(skip) ==
    {s \in Shards : num_rows(rows, s) > 0 /\ SumRows(rows, s + 1) <= skip}

\* C5 as stated: for skip_to in [0, TotalRows] and no errors, no content fetch is
\* issued for a shard all of whose records lie at positions <= skip_to.
C5_NoPassedFetch_Closed ==
    (NoErrors /\ skip_to <= TotalRows) =>
        \A s \in PassedShards(skip_to) : attempts[s] = 0

\* C5 amended: for skip_to in [0, TotalRows) and no errors, no content fetch (neither
\* download_file nor download_file_async) is issued for a shard all of whose records
\* lie at positions <= skip_to; at skip_to = TotalRows the (0, 0) fallback of
\* find_start_file restarts at shard 0 and fetches every shard.
C5_NoPassedFetch ==
    (NoErrors /\ skip_to < TotalRows) =>
        \A s \in PassedShards(skip_to) : attempts[s] = 0

\* C5 witness: an exhausted error-free resume that left a passed shard unfetched.
C5_Witness ==
    /\ pc = "done" /\ NoErrors /\ skip_to < TotalRows
    /\ \E s \in PassedShards(skip_to) : attempts[s] = 0 /\ attempts[s + 1] = 1
    /\ Len(yielded) > 0

\* Background fetches started whose result the consumer has not read yet.
Outstanding == {s \in Shards : prefetch[s] \in {"running", "path", "unavailable"}}

\* C6: at most one background fetch is running or unread at any time, and a shard's
\* background fetch is started only when the result of every earlier one was read.
C6_OnePrefetch ==
    /\ Cardinality(Outstanding) <= 1
    /\ \A s, u \in Shards :
          (s < u /\ prefetch[s] # "none" /\ prefetch[u] # "none") => prefetch[s] = "read"

\* C6 witness: a prefetch runs after the previous one failed and its slot was read.
C6_Witness ==
    \E s \in Shards :
        /\ s + 1 \in Shards
        /\ prefetch[s] = "read" /\ failures[s] > 0
        /\ prefetch[s + 1] = "running"

\* Shard contents in the local cache, fetched or being fetched.
Resident == {s \in Shards : cache[s] # "absent"}

\* C7 as stated: at most two shard contents are in the local cache at any time.
C7_AtMostTwoResident == Cardinality(Resident) <= 2

\* C7 amended: at any time at most two shard contents are in the local cache besides
\* those whose os.remove raised OSError (the error is swallowed and the file stays).
C7_AtMostTwoBesidesUnremoved == Cardinality(Resident \ removeFailed) <= 2

\* C7 witness: the second shard of the range is read while the third is being
\* fetched, the first one having been read and removed.
C7_Witness ==
    \E s \in Shards :
        /\ s > start_file_idx /\ s + 1 \in Shards
        /\ local_path = s /\ pc = "yield"
        /\ cache[s] = "present" /\ cache[s + 1] = "fetching"
        /\ cache[s - 1] = "absent" /\ attempts[s - 1] > 0 /\ (s - 1) \notin skipped
        /\ removeFailed = {}

\* The shard the loop is at.
Current == start_file_idx + i

\* The stream ends only when the list of files is exhausted, the consumer closed it
\* or an exception left the frame; a skip moves on to the next file.
SkipContinues ==
    /\ pc = "done" => i = Len(remaining_files)
    /\ \A s \in skipped : Current > s

\* C8 as stated: every skipped shard, the first of the range included, was skipped
\* after two failed fetch attempts, and the stream went on after the skip.
C8_RetryEveryShard ==
    /\ \A s \in skipped : attempts[s] = 2 /\ failures[s] = 2
    /\ SkipContinues

\* C8 amended: a shard whose prefetch failed is fetched once more, synchronously, and
\* skipped only when that second attempt failed too; the first shard of the range has
\* no prefetch, gets a single synchronous attempt and is skipped when that one fails;
\* after a skip the stream goes on with the next shard.
C8_RetryAfterPrefetch ==
    /\ \A s \in skipped :
          IF s = start_file_idx
          THEN attempts[s] = 1 /\ failures[s] = 1
          ELSE attempts[s] = 2 /\ failures[s] = 2
    /\ \A s \in Shards :
          /\ attempts[s] <= 2
          /\ (prefetch[s] = "read" /\ failures[s] = 0) => attempts[s] = 1
          /\ (prefetch[s] = "read" /\ failures[s] > 0 /\ ~(Current = s /\ pc = "sync"))
                => attempts[s] = 2
    /\ SkipContinues

\* C8 witness: a shard after the first was skipped after two failed attempts and a
\* record of a later shard was yielded.
C8_Witness ==
    \E s \in skipped :
        /\ s > start_file_idx
        /\ failures[s] = 2
        /\ \E k \in 1..Len(yielded) : yielded[k].shard > s

Terminal == pc \in {"done", "closed", "raised"}

\* C9: when reading a fetched shard raises, its content is deleted and the stream
\* goes on: with no other error, the stream ends having yielded every record of every
\* later shard that lies beyond skip_to.
C9_FormatErrorSkips ==
    (pc \in {"done", "raised"} /\ readFailed # {} /\ Faults = Cardinality(readFailed)) =>
        \A f \in readFailed :
            /\ cache[f] = "absent"
            /\ \A s \in Shards : \A r \in 1..num_rows(rows, s) :
                  (s > f /\ RowsBefore(s) + r > skip_to) =>
                      \E k \in 1..Len(yielded) :
                          yielded[k].shard = s /\ yielded[k].row = r

\* Shards whose content was handed to pd.read_parquet.
Entered ==
    {s \in Shards :
        /\ pc \notin {"open", "jump"}
        /\ s >= start_file_idx
        /\ s \notin skipped
        /\ \/ s < Current
           \/ /\ s = Current
              /\ pc \in {"rows", "yield", "finally_next", "finally_raise",
                         "finally_close", "raised", "closed"}}

\* The shard inside the try block of lines 166-182.
BeingRead ==
    IF pc \in {"rows", "yield", "finally_next", "finally_raise", "finally_close"}
    THEN {Current} ELSE {}

\* C10 as stated: in no terminal state does the content of a shard that entered the
\* reader remain in the local cache.
C10_ReaderContentDeleted ==
    Terminal => \A s \in Entered : cache[s] = "absent"

\* C10 amended: the content of a shard that entered the reader is gone from the cache
\* once the try block is left (exhaustion, an error while reading, the generator
\* closed), unless os.remove raised OSError for it; in particular in every terminal
\* state.
C10_ReaderContentDeletedUnlessOSError ==
    \A s \in (Entered \ BeingRead) \ removeFailed : cache[s] = "absent"

\* C10 witness: the consumer closed the stream in the middle of a later shard and the
\* shard's content is gone.
C10_Witness ==
    /\ pc = "closed"
    /\ Current > start_file_idx
    /\ Current \in Entered
    /\ row < num_rows(rows, Current)
    /\ cache[Current] = "absent"
    /\ removeFailed = {}

\* C11: when the consumer has stopped pulling and the worker has ended, the content
\* fetched by the abandoned prefetch is no longer in the local cache.  (The closed
\* frame and the ended worker take no further step, so what is in the cache then
\* stays there.)
C11_AbandonedPrefetchReclaimed ==
    (pc = "closed" /\ next_file_queue # None
        /\ prefetch[next_file_queue] \in {"path", "unavailable"}) =>
            cache[next_file_queue] = "absent"

\* C12: a close at a yield point runs the finally block and ends the frame without
\* reading the prefetch slot: the slot of the held queue is never read by a closing
\* or closed frame, whatever the state of the background fetch.
C12_CloseNeverWaits ==
    /\ [](pc \in {"finally_close", "closed"} /\ next_file_queue # None
            => prefetch[next_file_queue] # "read")
    /\ [][pc = "yield" /\ pc' # "yield" /\ pc' # "rows"
            => pc' \in {"finally_close", "finally_next"}]_vars
    /\ [][pc = "finally_close" /\ pc' # pc
            => pc' = "closed"
               /\ \A s \in Shards : prefetch'[s] = "read" <=> prefetch[s] = "read"]_vars

\* C12 witness: the frame is closed while the background fetch is still running.
C12_Witness ==
    /\ pc = "closed"
    /\ next_file_queue # None
    /\ prefetch[next_file_queue] = "running"
    /\ cache[Current] = "absent"

\* Shards of the streamed range that have a successor in the list.
WithSuccessor ==
    {s \in Shards : pc \notin {"open", "jump"} /\ s >= start_file_idx
                    /\ s + 1 < Len(parquet_files)}

\* The loop has dealt with the fetch of shard s (content obtained, or the
\* synchronous attempt failed) and has passed the launch of lines 158-161.
PastLaunch(s) == Current > s \/ (Current = s /\ pc \notin {"get", "sync", "launch"})

\* The loop has not yet finished obtaining the content of shard s.
BeforeObtained(s) == Current < s \/ (Current = s /\ pc \in {"get", "sync"})

\* C13: for every shard s of the range with a successor, the background fetch of s+1
\* is not started before the content of s was obtained or found unavailable, and it
\* has been started before s is read or skipped (so before any of its records is
\* yielded), also when s is skipped.
C13_PrefetchLaunchOrder ==
    \A s \in WithSuccessor :
        /\ BeforeObtained(s) => prefetch[s + 1] = "none" /\ attempts[s + 1] = 0
        /\ PastLaunch(s) => prefetch[s + 1] # "none" /\ attempts[s + 1] >= 1
        /\ s \in skipped => attempts[s + 1] >= 1
        /\ (\E k \in 1..Len(yielded) : yielded[k].shard = s) => attempts[s + 1] >= 1

\* C13 witness: a shard was skipped after its synchronous retry failed while the
\* background fetch of its successor had been started.
C13_Witness ==
    \E s \in WithSuccessor :
        /\ s \in skipped
        /\ failures[s] = 2
        /\ prefetch[s + 1] = "running"

\* Order of the dataset on records.
Before(a, b) == a.shard < b.shard \/ (a.shard = b.shard /\ a.row < b.row)

\* C14: the content the loop reads at a shard is that shard's content, and the
\* yielded records are records of the dataset in strictly increasing dataset order
\* (increasing shard, file-row order inside a shard, none twice).
C14_OrderedSubsequence ==
    /\ pc \in {"check", "rows", "yield", "finally_next", "finally_raise",
               "finally_close"} /\ local_path # None => local_path = Current
    /\ \A k \in 1..Len(yielded) : IsRecord(yielded[k])
    /\ \A k \in 1..(Len(yielded) - 1) : Before(yielded[k], yielded[k + 1])

\* C14 witness: records of a shard obtained by the synchronous retry follow records
\* of an earlier shard.
C14_Witness ==
    \E k \in 2..Len(yielded) :
        /\ yielded[k].shard > yielded[1].shard
        /\ failures[yielded[k].shard] = 1
        /\ attempts[yielded[k].shard] = 2

\* C15: when listing fails or the catalog is empty, the list is empty and the stream
\* ends normally whatever skip_to is: nothing is yielded, no content fetch and no
\* footer request is issued, and the frame goes from the jump to its end.
C15_EmptyCatalog ==
    /\ listFailed => parquet_files = <<>>
    /\ (pc \notin {"open"} /\ (listFailed \/ Len(rows) = 0)) =>
          /\ parquet_files = <<>>
          /\ pc \in {"jump", "done"}
          /\ yielded = <<>>
          /\ metaRequests = {}
          /\ \A s \in Shards : attempts[s] = 0 /\ cache[s] = "absent"

\* C15 witness: listing a non-empty dataset failed and the stream, opened at a
\* positive offset, has ended.
C15_Witness ==
    /\ listFailed /\ Len(rows) > 0 /\ skip_to > 0
    /\ pc = "done"

\* ---------------------------------------------------------------------- C16
\* C16: every launched background fetch puts exactly one result in its slot, so a
\* consumer blocked on the slot is unblocked; hence, when every fetch attempt ends
\* and the consumer keeps pulling, the stream reaches DONE: a run that can take no
\* further step has its frame at "done".
C16_ReachesDone == (~ENABLED NextLive) => pc = "done"

\* The part of C16 about the slot: a consumer waiting at the queue is unblocked,
\* and the frame always ends, either exhausted or by a raise.
C16_Unblocked == (pc = "get") ~> (pc # "get")

C16_Ends == <>(pc \in {"done", "raised"})

\* ---------------------------------------------------------------------- C18
\* The records of shard s whose dataset position is greater than skip.
Owed(s, skip) ==
    {r \in 1..num_rows(rows, s) : Position([shard |-> s, row |-> r]) > skip}

IsYielded(s, r) == \E k \in 1..Len(yielded) : yielded[k].shard = s /\ yielded[k].row = r

\* C18: a shard skipped after fetch failure costs only its own records: with the
\* listing and every footer read succeeding, in an exhausted stream every record of
\* every read shard at or after the start shard whose dataset position is > skip_to
\* has been yielded.
C18_SkipCostsOwnRecords ==
    (pc = "done" /\ ~listFailed /\ metaFailed = {}) =>
        \A s \in Shards :
            (s >= start_file_idx /\ s \notin skipped) =>
                \A r \in Owed(s, skip_to) : IsYielded(s, r)

\* ---------------------------------------------------------------------- C19
\* C19: a footer failure during the scan costs only speed: for skip_to in
\* [0, totalRows), whatever footers fail, with the listing, every content fetch and
\* every read succeeding, the exhausted stream has yielded every record whose dataset
\* position is > skip_to.
C19_MetaFailureKeepsCoverage ==
    (pc = "done" /\ skip_to < TotalRows /\ ~listFailed /\ readFailed = {}
        /\ \A s \in Shards : failures[s] = 0) =>
            \A s \in Shards : \A r \in Owed(s, skip_to) : IsYielded(s, r)

\* ---------------------------------------------------------------------- C17
\* read_data has returned at line 92.
OverLimitReturn == n_items > Len(points)

\* C17: the points of read_data have the ids skip_first+1, skip_first+2, ... in
\* order, each carrying the record the stream yielded at that place; no id exceeds
\* limit; read_data stops at the first record whose id would exceed limit, and only
\* there; with no errors and skip_first <= totalRows each id is the dataset position
\* of its record and the stream's cursor value for it.
C17_ReadDataIds ==
    /\ \A k \in 1..Len(points) :
          /\ points[k].id = skip_to + k
          /\ points[k].id <= limit
          /\ points[k].item = yielded[k]
    /\ Len(points) <= n_items /\ n_items <= Len(points) + 1
    /\ n_items <= Len(yielded) /\ Len(yielded) <= n_items + 1
    /\ OverLimitReturn <=> pc \in {"finally_close", "closed"}
    /\ OverLimitReturn => n_items = Len(yielded) /\ skip_to + n_items > limit
    /\ (NoErrors /\ skip_to <= TotalRows) =>
          \A k \in 1..Len(points) :
              /\ points[k].id = Position(points[k].item)
              /\ points[k].id = points[k].item.cursor

\* read_data resumed inside a later shard with no error, yielded two points and
\* returned at the first record over the limit.
C17_Witness ==
    /\ NoErrors
    /\ skip_to > 0
    /\ Len(points) = 2
    /\ points[1].item.shard > 0
    /\ OverLimitReturn
    /\ pc = "closed"

\* ---------------------------------------------------------------------- C20
\* C20: a run of load_all that finds more points than LIMIT_POINTS in a collection
\* holding the ids 1..current_count deletes exactly the ids > LIMIT_POINTS and
\* leaves 1..LIMIT_POINTS; a run that finds at most LIMIT_POINTS deletes nothing.
C20_TrimLeavesTarget ==
    /\ load_pc = "trimmed" => collection = 1..LIMIT_POINTS
    /\ load_pc = "full" => collection = 1..LIMIT_POINTS

\* Whenever load_all starts, the collection holds the ids 1..current_count.
CollectionIsPrefix ==
    load_pc # "trimmed" => collection = 1..Cardinality(collection)

====
